---- MODULE Spec2Model ----
(***************************************************************************)
(* The YAML line-length rewriters of scripts/ (fix-yaml-aggressive.py,    *)
(* fix-yaml-lint-v2.py, fix-yaml-targeted.py, fix-yaml-final.py,          *)
(* fix-yaml-comprehensive.py), modelled on the text they rewrite.         *)
(*                                                                         *)
(* A document is a string; "\n" separates its lines.  Positions and       *)
(* slices are Python's (0-based, half-open) so that the column constants  *)
(* of the scripts (80, 60, 70, ...) appear here unchanged.                *)
(***************************************************************************)
EXTENDS Integers, Sequences, FiniteSets, TLC

VARIABLES
    script,     \* which script's rewrite function the operator (re-)runs
    filename,   \* the name of the workflow file
    content,    \* the file's content
    prev,       \* the content the last application read
    fixes,      \* the fix count the last application returned
    passes,     \* applications so far
    trace,      \* last application: per input line, the lines emitted for it
    markers,    \* '---' lines the applications so far have added
    dir,        \* a batch run: whether .github/workflows exists
    files,      \* a batch run: the workflow files, in the order they are taken
    pc,         \* a batch run: where main() is
    cursor,     \* a batch run: how many files the loop has taken
    log,        \* a batch run: what happened to each file taken
    summary,    \* a batch run: whether the summary was printed
    exitcode,   \* a batch run: the exit code of the process, -1 while it runs
    io,         \* a batch run: the files opened and the rewrites made, in order
    procs       \* concurrent batch runs: where each main() is and what it holds

\* what a batch run of main() reads and writes
batchvars == <<dir, files, pc, cursor, log, summary, exitcode, io, procs>>

vars == <<script, filename, content, prev, fixes, passes, trace, markers, batchvars>>

-----------------------------------------------------------------------------
(* Bounds of the model *)

MaxPasses == 3

MaxTrailing == 2

MaxFiles == 2

-----------------------------------------------------------------------------
(* Python's str operations, on TLA+ strings *)

NL == "\n"

Whitespace == {" ", "\t"}

UpperCase == {"A","B","C","D","E","F","G","H","I","J","K","L","M",
              "N","O","P","Q","R","S","T","U","V","W","X","Y","Z"}

Digits == {"0","1","2","3","4","5","6","7","8","9"}

SetMin(S) == CHOOSE x \in S : \A y \in S : x <= y

SetMax(S) == 0 - SetMin({0 - x : x \in S})

\* s[i], 0-based
At(s, i) == SubSeq(s, i + 1, i + 1)

\* s[a:b]
Slice(s, a, b) == SubSeq(s, a + 1, b)

\* s[a:]
From(s, a) == SubSeq(s, a + 1, Len(s))

StartsWith(s, p) == Len(p) <= Len(s) /\ SubSeq(s, 1, Len(p)) = p

EndsWith(s, p) == Len(p) <= Len(s) /\ SubSeq(s, Len(s) - Len(p) + 1, Len(s)) = p

\* the 0-based offsets at which sub occurs in s
Occurrences(s, sub) ==
    {i \in 0..(Len(s) - Len(sub)) : SubSeq(s, i + 1, i + Len(sub)) = sub}

\* sub in s
Contains(s, sub) == \E i \in 0..(Len(s) - Len(sub)) : SubSeq(s, i + 1, i + Len(sub)) = sub

\* s.find(sub)
Find(s, sub) == IF Contains(s, sub) THEN SetMin(Occurrences(s, sub)) ELSE -1

\* s.rstrip()
RStrip(s) ==
    LET keep == {i \in 1..Len(s) : SubSeq(s, i, i) \notin Whitespace}
    IN  IF keep = {} THEN "" ELSE SubSeq(s, 1, SetMax(keep))

\* s.lstrip()
LStrip(s) ==
    LET keep == {i \in 1..Len(s) : SubSeq(s, i, i) \notin Whitespace}
    IN  IF keep = {} THEN "" ELSE SubSeq(s, SetMin(keep), Len(s))

\* s.strip()
Strip(s) == LStrip(RStrip(s))

\* len(line) - len(line.lstrip())
IndentOf(line) == Len(line) - Len(LStrip(line))

RECURSIVE Spaces(_)
\* ' ' * n
Spaces(n) ==
    IF n <= 0 THEN ""
    ELSE LET half == Spaces(n \div 2)
         IN  half \o half \o (IF n % 2 = 1 THEN " " ELSE "")

RECURSIVE SplitOn(_, _)
\* s.split(sep), sep non-empty
SplitOn(s, sep) ==
    LET p == Find(s, sep)
    IN  IF p < 0 THEN <<s>>
        ELSE <<Slice(s, 0, p)>> \o SplitOn(From(s, p + Len(sep)), sep)

RECURSIVE Join(_, _)
\* sep.join(parts)
Join(parts, sep) ==
    IF Len(parts) = 0 THEN ""
    ELSE IF Len(parts) = 1 THEN parts[1]
    ELSE parts[1] \o sep \o Join(Tail(parts), sep)

RECURSIVE SplitWords(_)
\* s.split(): the maximal runs of non-whitespace characters
SplitWords(s) ==
    LET t == LStrip(s)
        ws == {i \in 0..(Len(t) - 1) : At(t, i) \in Whitespace}
    IN  IF t = "" THEN <<>>
        ELSE IF ws = {} THEN <<t>>
        ELSE <<Slice(t, 0, SetMin(ws))>> \o SplitWords(From(t, SetMin(ws)))

RECURSIVE RStripNL(_)
\* s.rstrip('\n')
RStripNL(s) == IF EndsWith(s, NL) THEN RStripNL(Slice(s, 0, Len(s) - 1)) ELSE s

\* the number of leading whitespace characters (what a leading \s* or \s+ takes)
LeadingWs(s) == Len(s) - Len(LStrip(s))

\* the one element of a singleton: The({e(x) : x \in {v}}) is e(v) with v worked out
\* once, as an assignment to a local does
The(S) == CHOOSE x \in S : TRUE

\* What one loop iteration did: `pre`, the document-start marker put ahead of the
\* line; `out`, the lines appended to fixed_lines for the input line; `n`, what it
\* added to issues_fixed; `how`, the branch of the script that appended them.
Emit(out, n, how) == [pre |-> <<>>, out |-> out, n |-> n, how |-> how]

\* The outcome of an if/elif chain: the branch entered and the lines it appended
\* (<<>> when the branch appended nothing and left the line to the code after it).
Branch(how, out) == [how |-> how, out |-> out]

-----------------------------------------------------------------------------
(* fix-yaml-aggressive.py: aggressively_fix_line_lengths *)

\* '${{' in line and '}}' in line
HasExpression(line) == Contains(line, "${{") /\ Contains(line, "}}")

\* line.strip().startswith('#')
IsComment(line) == StartsWith(Strip(line), "#")

\* line.lstrip().startswith('- ')
IsListItem(line) == StartsWith(LStrip(line), "- ")

\* re.match(r'^(\s*- )(.+)$', line).groups(), for a line that IsListItem
ListMarker(line) == Slice(line, 0, LeadingWs(line) + 2)

ListContent(line) == From(line, LeadingWs(line) + 2)

RECURSIVE AggrWordBreak(_, _, _)
\* lines 74-81: the greedy word loop of a simple list item
AggrWordBreak(words, current_line, continuation_indent) ==
    IF Len(words) = 0 THEN <<current_line>>
    ELSE IF Len(current_line \o " " \o Head(words)) <= 80
         THEN AggrWordBreak(Tail(words), current_line \o " " \o Head(words),
                            continuation_indent)
         ELSE <<current_line>>
              \o AggrWordBreak(Tail(words), continuation_indent \o Head(words),
                               continuation_indent)

\* AggrKeyValue with the value sliced one character late
AggrKeyValue_LateValue(line) ==
    LET colon_pos == Find(line, ": ")
        key == Slice(line, 0, colon_pos)
        value == From(line, colon_pos + 3)
        indent_str == Spaces(IndentOf(line))
    IN  IF colon_pos < 60 /\ Len(value) > 30
        THEN <<key \o ": >", indent_str \o "  " \o value>>
        ELSE <<>>

\* Pattern 1 (lines 39-50): key-value pairs; <<>> when it fixes nothing
AggrKeyValue(line) ==
    LET colon_pos == Find(line, ": ")
        key == Slice(line, 0, colon_pos)
        value == From(line, colon_pos + 2)
        indent_str == Spaces(IndentOf(line))
    IN  IF colon_pos < 60 /\ Len(value) > 30
        THEN <<key \o ": >", indent_str \o "  " \o value>>
        ELSE <<>>

\* Pattern 2 (lines 53-83): list items
AggrListItem(line) ==
    LET list_marker == ListMarker(line)
        item == ListContent(line)
        colon_pos == Find(item, ": ")
        key_part == Slice(item, 0, colon_pos + 1)
        value_part == From(item, colon_pos + 2)
        words == SplitWords(item)
    IN  IF Contains(item, ": ")
        THEN IF Len(value_part) > 30
             THEN <<list_marker \o key_part,
                    Spaces(Len(list_marker)) \o "  " \o value_part>>
             ELSE <<>>
        ELSE AggrWordBreak(Tail(words), list_marker \o Head(words),
                           Spaces(Len(list_marker)))

\* the length of the longest prefix of s made of the characters of class
PrefixRun(s, class) ==
    LET other == {i \in 0..(Len(s) - 1) : At(s, i) \notin class}
    IN  IF other = {} THEN Len(s) ELSE SetMin(other)

\* the length of the longest prefix of s made of [A-Z0-9_]
IdentRun(s) == PrefixRun(s, UpperCase \cup Digits \cup {"_"})

\* re.match(r'^\s+[A-Z_][A-Z0-9_]*:\s+.+', line), for a right-stripped line
AggrEnvMatch(line) ==
    LET rest == LStrip(line)
        n == IdentRun(rest)
    IN  /\ LeadingWs(line) >= 1
        /\ rest # "" /\ Head(rest) \in (UpperCase \cup {"_"})
        /\ n < Len(rest) /\ At(rest, n) = ":"
        /\ LeadingWs(From(rest, n + 1)) >= 1
        /\ LStrip(From(rest, n + 1)) # ""

\* Pattern 3 (lines 86-93): environment variables or parameters
AggrEnvVar(line) ==
    LET spaces == Slice(line, 0, LeadingWs(line))
        rest == LStrip(line)
        n == IdentRun(rest)
        var_name == Slice(rest, 0, n + 1)
        value == LStrip(From(rest, n + 1))
    IN  <<spaces \o var_name \o " >", spaces \o "  " \o value>>

\* Pattern 4 (lines 96-107): URLs and long strings
AggrUrl(line) ==
    LET colon_pos == Find(line, ": ")
        key == Slice(line, 0, colon_pos)
        value == From(line, colon_pos + 2)
        indent_str == Spaces(IndentOf(line))
    IN  IF Contains(line, ": ") /\ (Contains(value, "://") \/ Contains(value, "arn:aws:"))
        THEN <<key \o ": >", indent_str \o "  " \o value>>
        ELSE <<>>

\* Pattern 5 (lines 110-120): run statements
AggrRun(line) ==
    LET run_pos == Find(line, "run:")
        prefix == Slice(line, 0, run_pos)
        run_content == Strip(From(line, run_pos + 4))
        indent_str == Spaces(IndentOf(line))
    IN  IF Len(run_content) > 40
        THEN <<prefix \o "run: >", indent_str \o "  " \o run_content>>
        ELSE <<>>

\* lines 38-120: the if/elif chain; <<>> when `fixed` stays False
AggrPattern(line) ==
    IF Contains(line, ": ") /\ ~IsListItem(line) THEN Branch("keyvalue", AggrKeyValue(line))
    ELSE IF IsListItem(line)
         THEN Branch(IF Contains(ListContent(line), ": ") THEN "item_keyvalue"
                     ELSE "item_words", AggrListItem(line))
    ELSE IF AggrEnvMatch(line) THEN Branch("env", AggrEnvVar(line))
    ELSE IF Contains(line, "http") \/ Contains(line, "arn:aws:")
         THEN Branch("url", AggrUrl(line))
    ELSE IF Contains(line, "run:") THEN Branch("run", AggrRun(line))
    ELSE Branch("none", <<>>)

\* lines 123-136: break at the last space of columns 70..79
AggrFallback(line) ==
    LET cand == {pos \in 70..(SetMin({80, Len(line)}) - 1) : At(line, pos) = " "}
        break_pos == IF cand = {} THEN -1 ELSE SetMax(cand)
        indent_str == Spaces(IndentOf(line))
    IN  IF Contains(line, " ") /\ Len(line) > 80 /\ break_pos > 0
        THEN <<Slice(line, 0, break_pos),
               indent_str \o "  " \o From(line, break_pos + 1)>>
        ELSE <<>>

\* lines 22-140: what is appended for a right-stripped line, and the increment of
\* issues_fixed
AggrStripped(line) ==
    LET pat == AggrPattern(line)
        fb == AggrFallback(line)
    IN  IF Len(line) <= 80 THEN Emit(<<line>>, 0, "short")
        ELSE IF IsComment(line) \/ HasExpression(line) THEN Emit(<<line>>, 0, "skip")
        ELSE IF pat.out # <<>> THEN Emit(pat.out, 1, pat.how)
        ELSE IF fb # <<>> THEN Emit(fb, 1, "fallback")
        ELSE Emit(<<line>>, 0, "as_is")

\* lines 15-140, one iteration: the lines appended and the increment of issues_fixed
AggrLine(original_line) ==
    The({AggrStripped(line) : line \in {RStrip(original_line)}})

-----------------------------------------------------------------------------
(* What the rewrite functions share: the loop over the lines and the join *)

RECURSIVE Flatten(_)
Flatten(ss) == IF Len(ss) = 0 THEN <<>> ELSE Head(ss) \o Flatten(Tail(ss))

RECURSIVE Sum(_)
Sum(ns) == IF Len(ns) = 0 THEN 0 ELSE Head(ns) + Sum(Tail(ns))

\* what one iteration did, with the line it read
Traced(line, r) ==
    The({[in |-> line, pre |-> e.pre, out |-> e.out, n |-> e.n, how |-> e.how] :
         e \in {r}})

\* fixed_lines after the loop
Emitted(rs) == Flatten([i \in 1..Len(rs) |-> rs[i].pre \o rs[i].out])

\* issues_fixed after the loop
Counted(rs) == Sum([i \in 1..Len(rs) |-> rs[i].n])

\* lines 15-140: the loop over the lines
AggrLoop(lines) == [i \in 1..Len(lines) |-> Traced(lines[i], AggrLine(lines[i]))]

\* lines 142-146: the join and the final newline
AggrJoin(t) ==
    LET joined == Join(Emitted(t), NL)
    IN  [content |-> IF ~EndsWith(joined, NL) THEN joined \o NL ELSE joined,
         fixes |-> Counted(t), trace |-> t]

\* lines 9-146
aggressively_fix_line_lengths(text) ==
    The({AggrJoin(t) : t \in {AggrLoop(lines) : lines \in {SplitOn(text, NL)}}})

-----------------------------------------------------------------------------
(* fix-yaml-lint-v2.py: fix_yaml_content *)

\* any(x in s for x in xs)
ContainsAny(s, xs) == \E x \in xs : Contains(s, x)

\* re.match(r'^(\s*)(on|push|pull_request|schedule|workflow_dispatch):\s*$', line),
\* for a right-stripped line
V2TruthyMatch(line) ==
    LStrip(line) \in {"on:", "push:", "pull_request:", "schedule:", "workflow_dispatch:"}

\* lines 37-54: comment spacing; the line and the increment of issues_fixed
V2CommentSpacing(line) ==
    LET comment_pos == Find(line, "#")
        before_comment == Slice(line, 0, comment_pos)
        comment == From(line, comment_pos)
    IN  IF /\ Contains(line, "#") /\ ~IsComment(line)
           /\ EndsWith(before_comment, " ") /\ ~EndsWith(before_comment, "  ")
        THEN [line |-> before_comment \o " " \o comment, n |-> 1]
        ELSE [line |-> line, n |-> 0]

RECURSIVE V2FirstFit(_, _)
\* lines 97-102, first loop: current_line once the loop ends, and the word the loop
\* broke on ("" when every word fitted)
V2FirstFit(rest, current_line) ==
    IF Len(rest) = 0 THEN [line |-> current_line, stop |-> ""]
    ELSE IF Len(current_line \o " " \o Head(rest)) <= 80
         THEN V2FirstFit(Tail(rest), current_line \o " " \o Head(rest))
         ELSE [line |-> current_line, stop |-> Head(rest)]

\* words.index(word), 0-based, for a word of words
IndexOf(words, word) == SetMin({i \in 1..Len(words) : words[i] = word}) - 1

RECURSIVE V2Continuation(_, _, _)
\* lines 107-116: the continuation lines of a word-broken value
V2Continuation(remaining, continuation_line, continuation_indent) ==
    IF Len(remaining) = 0
    THEN IF Strip(continuation_line) # "" THEN <<RStrip(continuation_line)>> ELSE <<>>
    ELSE IF Len(continuation_line \o Head(remaining) \o " ") <= 80
         THEN V2Continuation(Tail(remaining), continuation_line \o Head(remaining) \o " ",
                             continuation_indent)
         ELSE (IF Strip(continuation_line) # "" THEN <<RStrip(continuation_line)>> ELSE <<>>)
              \o V2Continuation(Tail(remaining),
                                continuation_indent \o Head(remaining) \o " ",
                                continuation_indent)

\* lines 82-88, Strategy 1: the folded header and its continuation
V2Fold(key, value, indent) ==
    <<Spaces(indent) \o Strip(key) \o ": >", Spaces(indent + 2) \o Strip(value)>>

\* lines 91-118, Strategy 2: break at word boundaries; <<>> when nothing remains
V2WordBreak(key, value, indent) ==
    LET words == SplitWords(value)
        first == V2FirstFit(Tail(words), key \o " " \o Head(words))
        remaining_words ==
            IF first.stop = "" THEN <<>>
            ELSE SubSeq(words, IndexOf(words, first.stop) + 1, Len(words))
    IN  IF Len(remaining_words) > 0
        THEN <<first.line>> \o V2Continuation(remaining_words, Spaces(indent + 2),
                                              Spaces(indent + 2))
        ELSE <<>>

\* lines 71-121: key-value pairs; <<>> when `broken` stays False
V2KeyValue(line) ==
    LET colon_pos == Find(line, ": ")
        key == Slice(line, 0, colon_pos + 1)
        value == From(line, colon_pos + 2)
        indent == IndentOf(line)
    IN  IF ~(Contains(line, ": ") /\ ~IsListItem(line)) THEN Branch("none", <<>>)
        ELSE IF ~(colon_pos > 0 /\ colon_pos < 60) THEN Branch("none", <<>>)
        ELSE IF /\ Len(value) > 50 /\ ~ContainsAny(value, {"${{", "}}", "|", "&"})
                /\ Contains(value, " ") /\ ~StartsWith(value, "\"")
             THEN Branch("fold", V2Fold(key, value, indent))
        ELSE IF Contains(value, " ") /\ Len(value) > 40
             THEN Branch("wordbreak", V2WordBreak(key, value, indent))
        ELSE Branch("none", <<>>)

\* lines 124-141: long list items; <<>> when the item is not broken
V2ListItem(line) ==
    LET list_prefix == ListMarker(line)
        list_content == ListContent(line)
        key_val_pos == Find(list_content, ": ")
        key_part == Slice(list_content, 0, key_val_pos + 1)
        val_part == From(list_content, key_val_pos + 2)
    IN  IF /\ IsListItem(line) /\ Len(line) > 80
           /\ Contains(list_content, ": ") /\ Contains(list_content, " ")
           /\ key_val_pos > 0
           /\ Len(val_part) > 30 /\ Contains(val_part, " ")
        THEN <<list_prefix \o key_part, Spaces(Len(list_prefix)) \o " " \o val_part>>
        ELSE <<>>

\* lines 57-143: what is appended for a line once trailing whitespace and comment
\* spacing are done, and the increment of issues_fixed
V2Length(line) ==
    LET kv == V2KeyValue(line)
        li == V2ListItem(line)
    IN  IF ~(Len(line) > 80 /\ ~IsComment(line)) THEN Emit(<<line>>, 0, "short")
        ELSE IF HasExpression(line) THEN Emit(<<line>>, 0, "skip")
        ELSE IF ContainsAny(line, {"|", "&&", "||", "bash -c", "shell:"})
             THEN Emit(<<line>>, 0, "skip")
        ELSE IF kv.out # <<>> THEN Emit(kv.out, 1, kv.how)
        ELSE IF li # <<>> THEN Emit(li, 1, "item_keyvalue")
        ELSE Emit(<<line>>, 0, "as_is")

\* lines 29-143: a right-stripped line that is no trigger keyword: comment spacing,
\* then the length handling of the respaced line
V2Respaced(spaced) ==
    The({Emit(rest.out, spaced.n + rest.n, rest.how) : rest \in {V2Length(spaced.line)}})

\* lines 23-143: what is appended for a right-stripped line, and the increment of
\* issues_fixed after the trailing-whitespace count
V2Stripped(line) ==
    IF V2TruthyMatch(line) THEN Emit(<<line>>, 0, "trigger")
    ELSE The({V2Respaced(spaced) : spaced \in {V2CommentSpacing(line)}})

\* lines 24-143: the count of lines 25-26, which compares two right-stripped
\* copies of the line, and the rest of the iteration
V2Counted(line, original_line) ==
    The({Emit(r.out, (IF line # RStrip(original_line) THEN 1 ELSE 0) + r.n, r.how) :
         r \in {V2Stripped(line)}})

\* V2Line with the marker test of line 19 made on every line
V2Line_EveryLine(i, original_line) ==
    LET marker == Strip(original_line) # "" /\ ~StartsWith(Strip(original_line), "---")
    IN  The({[pre |-> IF marker THEN <<"---">> ELSE <<>>,
              out |-> r.out,
              n |-> (IF marker THEN 1 ELSE 0) + r.n,
              how |-> r.how] : r \in {V2Counted(line, original_line) :
                                      line \in {RStrip(original_line)}}})

\* lines 15-143, one iteration (i is the 0-based line number)
V2Line(i, original_line) ==
    LET marker == i = 0 /\ Strip(original_line) # ""
                  /\ ~StartsWith(Strip(original_line), "---")
    IN  The({[pre |-> IF marker THEN <<"---">> ELSE <<>>,
              out |-> r.out,
              n |-> (IF marker THEN 1 ELSE 0) + r.n,
              how |-> r.how] : r \in {V2Counted(line, original_line) :
                                      line \in {RStrip(original_line)}}})

\* lines 15-143: the loop over the lines
V2Loop(lines) == [i \in 1..Len(lines) |-> Traced(lines[i], V2Line(i - 1, lines[i]))]

\* lines 145-152 without the elif of lines 150-152
V2Ending_NoCollapse(t) ==
    LET joined == Join(Emitted(t), NL)
    IN  IF ~EndsWith(joined, NL)
        THEN [content |-> joined \o NL, fixes |-> Counted(t) + 1, trace |-> t]
        ELSE [content |-> joined, fixes |-> Counted(t), trace |-> t]

\* lines 145-152: the join and the ending of the file
V2Ending(t) ==
    LET joined == Join(Emitted(t), NL)
    IN  IF ~EndsWith(joined, NL)
        THEN [content |-> joined \o NL, fixes |-> Counted(t) + 1, trace |-> t]
        ELSE IF EndsWith(joined, NL \o NL)
        THEN [content |-> RStripNL(joined) \o NL, fixes |-> Counted(t) + 1, trace |-> t]
        ELSE [content |-> joined, fixes |-> Counted(t), trace |-> t]

\* lines 9-154
fix_yaml_content(text) ==
    The({V2Ending(t) : t \in {V2Loop(lines) : lines \in {SplitOn(text, NL)}}})

-----------------------------------------------------------------------------
(* fix-yaml-targeted.py: fix_specific_issues *)

\* the length of the longest prefix of s made of [A-Z_]
UpperRun(s) == PrefixRun(s, UpperCase \cup {"_"})

\* re.match(r'^\s+[A-Z_]+:\s*.+', line)
TgtEnvMatch(line) ==
    LET rest == LStrip(line)
        n == UpperRun(rest)
    IN  /\ LeadingWs(line) >= 1
        /\ n >= 1 /\ n < Len(rest) /\ At(rest, n) = ":"
        /\ Len(rest) > n + 1

\* the third group of re.match(r'^(\s+)([A-Z_]+):\s*(.+)$', line)
TgtEnvValue(line) ==
    LET rest == LStrip(line)
        after == From(rest, UpperRun(rest) + 1)
    IN  IF LStrip(after) # "" THEN LStrip(after) ELSE From(after, Len(after) - 1)

\* lines 27-36: role-to-assume
TgtRole(line) ==
    LET indent == IndentOf(line)
        parts == SplitOn(line, "role-to-assume:")
        key_part == parts[1] \o "role-to-assume:"
        value_part == Strip(parts[2])
    IN  <<key_part, Spaces(indent + 2) \o value_part>>

\* lines 39-48: environment variables; <<>> when the value is not long
TgtEnvVar(line) ==
    LET indent == Slice(line, 0, LeadingWs(line))
        rest == LStrip(line)
        var_name == Slice(rest, 0, UpperRun(rest))
        value == TgtEnvValue(line)
    IN  IF Len(value) > 50
        THEN <<indent \o var_name \o ": >", indent \o "  " \o value>>
        ELSE <<>>

\* lines 56-66: run commands
TgtRun(line) ==
    LET indent == IndentOf(line)
        run_content == Strip(SplitOn(line, "run:")[2])
    IN  IF Len(run_content) > 50 /\ ~(Contains(line, "|") \/ Contains(line, ">"))
        THEN <<Spaces(indent) \o "run: >", Spaces(indent + 2) \o run_content>>
        ELSE <<>>

\* s.rsplit('@', 1), for an s that contains '@'
RSplitAt(s) ==
    LET p == SetMax(Occurrences(s, "@"))
    IN  <<Slice(s, 0, p), From(s, p + 1)>>

\* lines 69-80: action usage
TgtUses(line) ==
    LET indent == IndentOf(line)
        uses_content == Strip(SplitOn(line, "uses:")[2])
        action == RSplitAt(uses_content)[1]
        version == RSplitAt(uses_content)[2]
    IN  IF Contains(uses_content, "@") /\ Len(uses_content) > 50
        THEN <<Spaces(indent) \o "uses: >",
               Spaces(indent + 2) \o action \o "@" \o version>>
        ELSE <<>>

\* lines 83-96: generic key-value
TgtGeneric(line) ==
    LET colon_pos == Find(line, ": ")
        key == Slice(line, 0, colon_pos + 1)
        value == From(line, colon_pos + 2)
        indent == IndentOf(line)
    IN  IF /\ colon_pos < 60
           /\ Len(value) > 40 /\ Contains(value, " ")
           /\ ~ContainsAny(value, {"${{", "}}", "|", "&&"})
        THEN <<Spaces(indent) \o Strip(key) \o ": >", Spaces(indent + 2) \o value>>
        ELSE <<>>

\* lines 24-96: the if/elif chain over a long line; <<>> when no branch `continue`s
TgtLong(line) ==
    IF ~(Len(line) > 80) THEN Branch("short", <<>>)
    ELSE IF Contains(line, "role-to-assume:") /\ Contains(line, "arn:aws:iam::")
         THEN Branch("role", TgtRole(line))
    ELSE IF TgtEnvMatch(line) THEN Branch("env", TgtEnvVar(line))
    ELSE IF Contains(line, "with:") THEN Branch("with", <<>>)
    ELSE IF StartsWith(Strip(line), "run:") THEN Branch("run", TgtRun(line))
    ELSE IF Contains(line, "uses:") THEN Branch("uses", TgtUses(line))
    ELSE IF Contains(line, ": ") THEN Branch("generic", TgtGeneric(line))
    ELSE Branch("none", <<>>)

\* re.match(r'^\s{9}\S', line)
TgtNineSpaces(line) ==
    /\ Len(line) >= 10
    /\ \A j \in 0..8 : At(line, j) \in Whitespace
    /\ At(line, 9) \notin Whitespace

\* lines 17-108, one iteration
TgtLine(line, file) ==
    LET shift == file = "scan-to-securityhub.yml" /\ TgtNineSpaces(line)
        fixed_line == IF shift THEN " " \o line ELSE line
    IN  The({IF long.out # <<>> THEN Emit(long.out, 1, long.how)
             ELSE Emit(<<RStrip(fixed_line)>>, IF shift THEN 1 ELSE 0,
                       IF shift THEN "indent" ELSE "as_is") : long \in {TgtLong(line)}})

\* lines 16-108: the loop over the lines
TgtLoop(lines, file) ==
    [i \in 1..Len(lines) |-> Traced(lines[i], TgtLine(lines[i], file))]

\* lines 110-114: the join and the ending of the file
TgtEnding(t) ==
    LET joined == Join(Emitted(t), NL)
    IN  IF ~EndsWith(joined, NL)
        THEN [content |-> joined \o NL, fixes |-> Counted(t) + 1, trace |-> t]
        ELSE [content |-> joined, fixes |-> Counted(t), trace |-> t]

\* lines 9-116
fix_specific_issues(text, file) ==
    The({TgtEnding(t) : t \in {TgtLoop(lines, file) : lines \in {SplitOn(text, NL)}}})

-----------------------------------------------------------------------------
(* fix-yaml-final.py: final_line_fixes *)

RECURSIVE FinShellLoop(_, _, _)
\* lines 27-36: the word loop that ends lines with a shell continuation
FinShellLoop(words, current_line, continuation_indent) ==
    IF Len(words) = 0
    THEN IF Strip(current_line) # "" THEN <<current_line>> ELSE <<>>
    ELSE IF Len(current_line \o " " \o Head(words)) <= 75
         THEN FinShellLoop(Tail(words), current_line \o " " \o Head(words),
                           continuation_indent)
         ELSE <<current_line \o " \\">>
              \o FinShellLoop(Tail(words), continuation_indent \o Head(words),
                              continuation_indent)

\* lines 18-38: shell commands; <<>> when the line is left to line 95
FinShell(line) ==
    LET words == SplitWords(line)
        indent == IndentOf(line)
    IN  IF ~Contains(line, "\\") /\ Contains(line, " ")
        THEN FinShellLoop(Tail(words), Head(words), Spaces(indent + 2))
        ELSE <<>>

\* s.rfind(' ', 0, end)
RFindSpace(s, end) ==
    LET cand == {p \in 0..(SetMin({end, Len(s)}) - 1) : At(s, p) = " "}
    IN  IF cand = {} THEN -1 ELSE SetMax(cand)

\* lines 41-60: echo statements
FinEcho(line) ==
    LET echo_pos == Find(line, "echo ")
        prefix == Slice(line, 0, echo_pos + 5)
        message == From(line, echo_pos + 5)
        mid_point == Len(message) \div 2
        break_pos == RFindSpace(message, mid_point + 20)
        indent == IndentOf(line)
    IN  IF /\ ~Contains(line, "\\")
           /\ Len(message) > 50 /\ Contains(message, " ")
           /\ break_pos > 0
        THEN <<prefix \o Slice(message, 0, break_pos) \o " \\",
               Spaces(indent + 2) \o From(message, break_pos + 1)>>
        ELSE <<>>

\* lines 63-73: URLs and ARNs
FinUrl(line) ==
    LET colon_pos == Find(line, ": ")
        key == Slice(line, 0, colon_pos + 1)
        value == From(line, colon_pos + 2)
        indent == IndentOf(line)
    IN  IF colon_pos > 0 /\ colon_pos < 60
        THEN <<Spaces(indent) \o Strip(key) \o ": >", Spaces(indent + 2) \o value>>
        ELSE <<>>

\* lines 76-83: run commands
FinRun(line) ==
    LET indent == IndentOf(line)
        run_content == From(line, Find(line, "run: ") + 5)
    IN  <<Spaces(indent) \o "run: >", Spaces(indent + 2) \o run_content>>

\* re.match(r'^\s+[A-Z_]+: .+', line)
FinEnvMatch(line) ==
    LET rest == LStrip(line)
        n == UpperRun(rest)
    IN  /\ LeadingWs(line) >= 1
        /\ n >= 1 /\ Slice(rest, n, n + 2) = ": "
        /\ Len(rest) > n + 2

\* lines 86-93: environment variables
FinEnvVar(line) ==
    LET spaces == Slice(line, 0, LeadingWs(line))
        rest == LStrip(line)
        n == UpperRun(rest)
    IN  <<spaces \o Slice(rest, 0, n) \o ": >", spaces \o "  " \o From(rest, n + 2)>>

\* lines 16-93: the if/elif chain over a long line; <<>> when no branch `continue`s
FinLong(line) ==
    IF ~(Len(line) > 80) THEN Branch("short", <<>>)
    ELSE IF Contains(line, "cosign sign") \/ Contains(line, "curl -")
            \/ Contains(line, "docker ")
         THEN Branch("shell", FinShell(line))
    ELSE IF Contains(line, "echo ") THEN Branch("echo", FinEcho(line))
    ELSE IF (Contains(line, "http") \/ Contains(line, "arn:aws:")) /\ Contains(line, ": ")
         THEN Branch("url", FinUrl(line))
    ELSE IF StartsWith(Strip(line), "run: ") THEN Branch("run", FinRun(line))
    ELSE IF FinEnvMatch(line) THEN Branch("env", FinEnvVar(line))
    ELSE Branch("none", <<>>)

\* lines 15-95, one iteration
FinLine(line) ==
    The({IF long.out # <<>> THEN Emit(long.out, 1, long.how)
         ELSE Emit(<<line>>, 0, "as_is") : long \in {FinLong(line)}})

\* lines 14-96: the loop over the lines
FinLoop(lines) == [i \in 1..Len(lines) |-> Traced(lines[i], FinLine(lines[i]))]

\* lines 9-98 (the file name is not read)
final_line_fixes(text, file) ==
    The({[content |-> Join(Emitted(t), NL), fixes |-> Counted(t), trace |-> t] :
         t \in {FinLoop(lines) : lines \in {SplitOn(text, NL)}}})

-----------------------------------------------------------------------------
(* fix-yaml-comprehensive.py: fix_yaml_file *)

RECURSIVE BracketSpacing(_)
\* re.sub(r'\[\s+\]', '[]', line)
BracketSpacing(s) ==
    LET opens == {p \in Occurrences(s, "[") :
                     /\ LeadingWs(From(s, p + 1)) >= 1
                     /\ StartsWith(LStrip(From(s, p + 1)), "]")}
        p == SetMin(opens)
        k == LeadingWs(From(s, p + 1))
    IN  IF opens = {} THEN s
        ELSE Slice(s, 0, p) \o "[]" \o BracketSpacing(From(s, p + k + 2))

TruthyMap == [w \in {"on", "off", "yes", "no"} |->
                 IF w \in {"on", "yes"} THEN "true" ELSE "false"]

\* match.group(1).lower(), for the words the truthy pattern accepts
Lower(w) ==
    IF w \in {"on", "On", "ON"} THEN "on"
    ELSE IF w \in {"off", "Off", "OFF"} THEN "off"
    ELSE IF w \in {"yes", "Yes", "YES"} THEN "yes"
    ELSE "no"

\* re.sub(r':\s+(on|off|yes|no|On|Off|Yes|No|ON|OFF|YES|NO)\s*$', fix_truthy, line),
\* for a right-stripped line
TruthyFix(line) ==
    LET ws == {i \in 0..(Len(line) - 1) : At(line, i) \in Whitespace}
        word == IF ws = {} THEN line ELSE From(line, SetMax(ws) + 1)
        head == RStrip(Slice(line, 0, Len(line) - Len(word)))
    IN  IF /\ ws # {}
           /\ word \in {"on", "off", "yes", "no", "On", "Off", "Yes", "No",
                        "ON", "OFF", "YES", "NO"}
           /\ EndsWith(head, ":")
        THEN Slice(head, 0, Len(head) - 1) \o ": " \o TruthyMap[Lower(word)]
        ELSE line

\* lines 50-68: long lines
CompLength(line) ==
    LET parts == SplitOn(line, ":")
        key == parts[1]
        value == Strip(parts[2])
        indent == Len(key) - Len(LStrip(key))
    IN  IF ~(Len(line) > 80 /\ Contains(line, ":") /\ ~IsComment(line))
        THEN Branch("short", <<line>>)
        ELSE IF Contains(line, " - ") \/ Contains(line, "run: |")
             THEN Branch("skip", <<line>>)
        ELSE IF /\ Cardinality(Occurrences(line, ":")) = 1
                /\ ~Contains(line, "|") /\ ~Contains(line, ">")
                /\ Len(value) > 60
             THEN Branch("fold", <<key \o ": >", Spaces(indent + 2) \o value>>)
        ELSE Branch("as_is", <<line>>)

\* lines 31-68, one iteration (i is the 0-based line number)
CompLine(i, original_line) ==
    IF i = 0 /\ Strip(original_line) = "---" THEN Emit(<<original_line>>, 0, "marker")
    ELSE The({Emit(long.out, 0, long.how) :
              long \in {CompLength(line) :
                        line \in {TruthyFix(BracketSpacing(RStrip(original_line)))}}})

\* content.strip().startswith('---')
StartsWithMarker(text) ==
    LET keep == {i \in 1..Len(text) : SubSeq(text, i, i) \notin (Whitespace \cup {NL})}
    IN  keep # {} /\ StartsWith(SubSeq(text, SetMin(keep), Len(text)), "---")

\* lines 28-68: the document-start marker and the loop over the lines
CompLoop(lines, marker) ==
    [i \in 1..Len(lines) |->
        Traced(lines[i],
               [CompLine(i - 1, lines[i])
                   EXCEPT !.pre = IF i = 1 /\ marker THEN <<"---">> ELSE <<>>])]

\* lines 70-73: the join and the final newline
CompEnding(t) ==
    LET joined == Join(Emitted(t), NL)
    IN  [content |-> IF ~EndsWith(joined, NL) THEN joined \o NL ELSE joined, trace |-> t]

\* lines 17-77: the content written back to the file
fix_yaml_file(text) ==
    The({CompEnding(t) : t \in {CompLoop(lines, ~StartsWithMarker(text)) :
                                lines \in {SplitOn(text, NL)}}})

-----------------------------------------------------------------------------
(* fix-yaml-lint.py: fix_yaml_file (the second definitions of the file) *)

\* f.readlines(): the lines of a text, each with the newline that ends it
ReadLines(text) ==
    LET parts == SplitOn(text, NL)
        n == Len(parts)
    IN  [i \in 1..(IF parts[n] = "" THEN n - 1 ELSE n) |->
            IF i < n THEN parts[i] \o NL ELSE parts[i]]

RECURSIVE LintBracketSpacing(_)
\* re.sub(r'\[\s+([^\]]*)\s+\]', r'[\1]', line), for a line without its newline
LintBracketSpacing(s) ==
    LET close(p) == p + 1 + Find(From(s, p + 1), "]")
        opens == {p \in Occurrences(s, "[") :
                     /\ Contains(From(s, p + 1), "]")
                     /\ close(p) - 1 >= p + 2
                     /\ At(s, p + 1) \in Whitespace
                     /\ At(s, close(p) - 1) \in Whitespace}
        p == SetMin(opens)
        q == close(p)
        k == LeadingWs(From(s, p + 1))
        group == IF p + 1 + k >= q THEN "" ELSE Slice(s, p + 1 + k, q - 1)
    IN  IF opens = {} THEN s
        ELSE Slice(s, 0, p) \o "[" \o group \o "]" \o LintBracketSpacing(From(s, q + 1))

\* lines 177-212: the lines a long line is replaced by; <<>> when it is kept
LintLong(line) ==
    LET spaces == Spaces(IndentOf(line))
        parts == SplitOn(Strip(line), "curl -sSfL ")
    IN  IF ~(Len(line) > 80) THEN Branch("short", <<>>)
        ELSE IF Contains(line, "role-to-assume:") /\ Contains(line, "arn:aws:iam::")
        THEN IF ~Contains(line, ">")
             THEN Branch("role", <<spaces \o "role-to-assume: >",
                                   spaces \o "  "
                                      \o Strip(SplitOn(line, "role-to-assume:")[2])>>)
             ELSE Branch("none", <<>>)
        ELSE IF Contains(line, "curl -")
        THEN IF /\ ~Contains(line, "\\") /\ Contains(Strip(line), "curl -sSfL")
                /\ Len(parts) > 1
             THEN Branch("curl", <<spaces \o "curl -sSfL \\", spaces \o "  " \o parts[2]>>)
             ELSE Branch("none", <<>>)
        ELSE IF StartsWith(Strip(line), "run:")
        THEN IF ~Contains(line, "|") /\ ~Contains(line, ">")
             THEN Branch("run", <<spaces \o "run: >",
                                  spaces \o "  " \o Strip(SplitOn(line, "run:")[2])>>)
             ELSE Branch("none", <<>>)
        ELSE Branch("none", <<>>)

\* lines 176-212: what a line is replaced by once its brackets are respaced
LintSpaced(line) ==
    The({IF long.out # <<>> THEN Emit(long.out, 1, long.how)
         ELSE Emit(<<line>>, 0, IF long.how = "short" THEN "short" ELSE "as_is") :
         long \in {LintLong(line)}})

\* lines 164-212: a right-stripped line: bracket spacing, then the long lines
LintStripped(line) ==
    The({LintSpaced(spaced) :
         spaced \in {IF ~Contains(line, "if [") THEN LintBracketSpacing(line)
                     ELSE line}})

\* lines 158-212: the change of lines 159-161 and the rest of the iteration
LintCounted(line, original_line) ==
    The({Emit(r.out, (IF line \o NL # original_line THEN 1 ELSE 0) + r.n, r.how) :
         r \in {LintStripped(line)}})

\* lines 155-212, one iteration: original_line is the line as read, with its newline
LintLine(original_line) ==
    The({LintCounted(line, original_line) : line \in {RStrip(RStripNL(original_line))}})

\* lines 155-217: the loop over the lines and the document-start marker
LintLoop(lines) ==
    [i \in 1..Len(lines) |->
        The({Traced(RStripNL(lines[i]),
                    [r EXCEPT !.pre = IF i = 1 /\ ~StartsWith(r.out[1], "---")
                                      THEN <<"---">> ELSE <<>>,
                              !.n = r.n + (IF i = 1 /\ ~StartsWith(r.out[1], "---")
                                           THEN 1 ELSE 0)]) :
             r \in {LintLine(lines[i])}})]

\* lines 219-237: f.writelines(fixed_lines); every line of fixed_lines ends with the
\* newline of line 159, so lines 220-222 add none
LintWrite(t) ==
    [content |-> IF Len(t) = 0 THEN "" ELSE Join(Emitted(t), NL) \o NL,
     fixes |-> Counted(t), trace |-> t]

\* lines 145-237: the content written back and the number of changes returned
lint_fix_yaml_file(text) ==
    The({LintWrite(t) : t \in {LintLoop(lines) : lines \in {ReadLines(text)}}})

-----------------------------------------------------------------------------
(* The documents the runs start from: one workflow line of each shape the
   scripts tell apart, after a preamble, before 0..MaxTrailing newlines *)

L_empty ==
    ""

L_spaces ==
    "   "

L_short ==
    "name: build"

L_trailing ==
    "name: build  "

L_blank9 ==
    "         needs: scan"

L_marker ==
    "---"

L_truthy ==
    "on: [ ]"

L_fold ==
    "    description: This step performs a very long security scan across all the repos"

L_foldlong ==
    "    description: This step performs a very long security scan across all repositories of the org"

L_twospace ==
    "    description: This step performs a very long  security scan across all the repos"

L_expr ==
    "      run: echo ${{ secrets.VERY_LONG_TOKEN_NAME_THAT_PUSHES_THIS_OVER_EIGHTY_CHARS_TOTAL }}"

L_exprcmt ==
    "      token: ${{ secrets.VERY_LONG_TOKEN_NAME_THAT_PUSHES_THIS_OVER_EIGHTY }} # the token"

L_exprenv ==
    "      AWS_ROLE: ${{ secrets.VERY_LONG_ROLE_NAME_THAT_PUSHES_THIS_LINE_OVER_EIGHTY_CHARS }}"

L_exprrole ==
    "          role-to-assume: arn:aws:iam::${{ secrets.AWS_ACCOUNT_ID }}:role/github-actions-deploy"

L_comment ==
    "# This comment is longer than eighty characters and must be left alone whatever it says"

L_cmtkey ==
    "    # note: the comment below explains why the scan step is skipped on forked repositories"

L_cmtcurl ==
    "    # curl -sSfL https://raw.githubusercontent.com/anchore/syft/main/install.sh | sh -s --"

L_item ==
    "  - name: build and push multi arch container image to registry now please go ok then"

L_itemplain ==
    "  - build and push the multi arch container image to the registry now please go ok"

L_envtab ==
    "  SCAN_TARGETS:\talpha beta gamma delta epsilon zeta eta theta iota kappa lambda mu nu xi"

L_env ==
    "  SCAN_TARGETS: alpha beta gamma delta epsilon zeta eta theta iota kappa lambda mu nu xi"

L_role ==
    "          role-to-assume: arn:aws:iam::123456789012:role/github-actions-deployment-role"

L_run ==
    "      run: terraform plan -input=false -no-color -out=tfplan -var-file=environments/prod.tfvars"

L_runtab ==
    "      run:\tterraform plan -input=false -no-color -out=tfplan -var-file=environments/prod.tfvars"

L_pipe ==
    "      run: grype sbom.json -o json | jq '.matches' && echo scanned the image for problems"

L_uses ==
    "      uses: aquasecurity/trivy-action-with-a-very-long-repository-name/subdirectory@v0.24.0"

L_url ==
    "      sbom-url: https://example.com/artifacts/releases/download/v1.2.3/sbom.cyclonedx.json"

L_curl ==
    "        curl -sSfL https://raw.githubusercontent.com/anchore/syft/main/install.sh -o install.sh"

L_echo ==
    "        echo the software bill of materials was generated and uploaded to the artifact store"

L_plain ==
    "        the software bill of materials was generated and uploaded to the artifact store now"

L_token ==
    "        xxxxxxxxxxxxxxxxxxxxxxxxxxxxxxxxxxxxxxxxxxxxxxxxxxxxxxxxxxxxxxxxxxxxxxxxxxxxxxxx"

L_deep ==
    "                                                                              abc def"

L_quoted ==
    "    description: \"This step performs a very long security scan across all the repos\""

L_strategy2 ==
    "                              key: alpha beta gamma delta epsilon zeta eta theta iota kap"

L_yes ==
    "    enabled: yes"

L_dupword ==
    "    description: \"scan the repos first and then we also check all of our images the charts\""

L_itemwide ==
    "  - alpha                                                                  beta gamma delta"

L_runcurl ==
    "      run: curl -sSfL https://raw.githubusercontent.com/anchore/syft/main/install.sh -o install.sh"

L_brackets ==
    "    branches: [ main, develop ]"

L_unterminated ==
    "      token: ${{ secrets.VERY_LONG_TOKEN_NAME_THAT_PUSHES_THIS_LINE_OVER_EIGHTY_CHARS_TOTAL"

L_space80 ==
    "        xxxxxxxxxxxxxxxxxxxxxxxxxxxxxxxxxxxxxxxxxxxxxxxxxxxxxxxxxxxxxxxxxxxxxxxx tail"

Catalogue ==
    {L_empty, L_spaces,
     L_short, L_trailing, L_blank9, L_marker, L_truthy,
     L_fold, L_foldlong, L_twospace, L_expr, L_exprcmt,
     L_exprenv, L_exprrole, L_comment, L_cmtkey, L_cmtcurl,
     L_item, L_itemplain, L_envtab, L_env, L_role,
     L_run, L_runtab, L_pipe, L_uses, L_url,
     L_curl, L_echo, L_plain, L_token, L_deep,
     L_quoted, L_strategy2, L_yes, L_dupword, L_itemwide,
     L_runcurl, L_brackets, L_unterminated, L_space80}

Preambles == {"", "---\n", "\n---\n"}

RECURSIVE Newlines(_)
Newlines(k) == IF k <= 0 THEN "" ELSE NL \o Newlines(k - 1)

Documents ==
    {pre \o line \o Newlines(k) : pre \in Preambles, line \in Catalogue,
                                   k \in 0..MaxTrailing}

Scripts == {"aggressive", "lint_v2", "targeted", "final", "comprehensive", "lint"}

Filenames == {"ci-build-deploy.yml", "scan-to-securityhub.yml"}

-----------------------------------------------------------------------------
(* The runs: an operator picks a script and a workflow file and runs the
   script's rewrite on the file's content, again and again *)

\* no batch run: the rewrite functions are applied to one content
NoBatch ==
    /\ dir = TRUE
    /\ files = <<>>
    /\ pc = "rewrite"
    /\ cursor = 0
    /\ log = <<>>
    /\ summary = FALSE
    /\ exitcode = -1
    /\ io = <<>>
    /\ procs = <<>>

\* the '---' lines an application put ahead of input lines
MarkersAdded(t) == Sum([i \in 1..Len(t) |-> Len(t[i].pre)])

\* fix_specific_issues is the one function that reads the file name it is handed
Init ==
    /\ script \in Scripts
    /\ content \in Documents
    /\ filename \in (IF script = "targeted" THEN Filenames ELSE {"ci-build-deploy.yml"})
    /\ prev = ""
    /\ fixes = 0
    /\ passes = 0
    /\ trace = <<>>
    /\ markers = 0
    /\ NoBatch

\* fix-yaml-aggressive.py main(), lines 168-171, for one file
RunAggressive ==
    /\ script = "aggressive"
    /\ passes < MaxPasses
    /\ \E r \in {aggressively_fix_line_lengths(content)} :
          /\ content' = r.content
          /\ fixes' = r.fixes
          /\ trace' = r.trace
          /\ markers' = markers + MarkersAdded(r.trace)
    /\ prev' = content
    /\ passes' = passes + 1
    /\ UNCHANGED <<script, filename, batchvars>>

\* fix-yaml-lint-v2.py main(), lines 181-184, for one file
RunLintV2 ==
    /\ script = "lint_v2"
    /\ passes < MaxPasses
    /\ \E r \in {fix_yaml_content(content)} :
          /\ content' = r.content
          /\ fixes' = r.fixes
          /\ trace' = r.trace
          /\ markers' = markers + MarkersAdded(r.trace)
    /\ prev' = content
    /\ passes' = passes + 1
    /\ UNCHANGED <<script, filename, batchvars>>

\* fix-yaml-targeted.py main(), lines 155-158, for one file
RunTargeted ==
    /\ script = "targeted"
    /\ passes < MaxPasses
    /\ \E r \in {fix_specific_issues(content, filename)} :
          /\ content' = r.content
          /\ fixes' = r.fixes
          /\ trace' = r.trace
          /\ markers' = markers + MarkersAdded(r.trace)
    /\ prev' = content
    /\ passes' = passes + 1
    /\ UNCHANGED <<script, filename, batchvars>>

\* fix-yaml-final.py main(), lines 112-115, for one file
RunFinal ==
    /\ script = "final"
    /\ passes < MaxPasses
    /\ \E r \in {final_line_fixes(content, filename)} :
          /\ content' = r.content
          /\ fixes' = r.fixes
          /\ trace' = r.trace
          /\ markers' = markers + MarkersAdded(r.trace)
    /\ prev' = content
    /\ passes' = passes + 1
    /\ UNCHANGED <<script, filename, batchvars>>

\* fix-yaml-comprehensive.py main(), line 95, for one file
RunComprehensive ==
    /\ script = "comprehensive"
    /\ passes < MaxPasses
    /\ \E r \in {fix_yaml_file(content)} :
          /\ content' = r.content
          /\ trace' = r.trace
          /\ markers' = markers + MarkersAdded(r.trace)
    /\ prev' = content
    /\ passes' = passes + 1
    /\ UNCHANGED <<script, filename, fixes, batchvars>>

\* fix-yaml-lint.py main(), lines 256-258, for one file
RunLint ==
    /\ script = "lint"
    /\ passes < MaxPasses
    /\ \E r \in {lint_fix_yaml_file(content)} :
          /\ content' = r.content
          /\ fixes' = r.fixes
          /\ trace' = r.trace
          /\ markers' = markers + MarkersAdded(r.trace)
    /\ prev' = content
    /\ passes' = passes + 1
    /\ UNCHANGED <<script, filename, batchvars>>

Next ==
    \/ RunAggressive
    \/ RunLintV2
    \/ RunTargeted
    \/ RunFinal
    \/ RunComprehensive
    \/ RunLint

Spec == Init /\ [][Next]_vars

-----------------------------------------------------------------------------
(* The marker-adding rewriters run one after another on the same file, in any
   order: fix-yaml-lint.py, fix-yaml-comprehensive.py and fix-yaml-lint-v2.py *)

InitChain ==
    /\ script = "chain"
    /\ content \in Documents
    /\ filename = "ci-build-deploy.yml"
    /\ prev = ""
    /\ fixes = 0
    /\ passes = 0
    /\ trace = <<>>
    /\ markers = 0
    /\ NoBatch

\* fix-yaml-lint.py main(), lines 256-258, for one file
ChainLint ==
    /\ passes < MaxPasses
    /\ \E r \in {lint_fix_yaml_file(content)} :
          /\ content' = r.content
          /\ fixes' = r.fixes
          /\ trace' = r.trace
          /\ markers' = markers + MarkersAdded(r.trace)
    /\ script' = "lint"
    /\ prev' = content
    /\ passes' = passes + 1
    /\ UNCHANGED <<filename, batchvars>>

\* fix-yaml-comprehensive.py main(), line 95, for one file
ChainComprehensive ==
    /\ passes < MaxPasses
    /\ \E r \in {fix_yaml_file(content)} :
          /\ content' = r.content
          /\ trace' = r.trace
          /\ markers' = markers + MarkersAdded(r.trace)
    /\ script' = "comprehensive"
    /\ prev' = content
    /\ passes' = passes + 1
    /\ UNCHANGED <<filename, fixes, batchvars>>

\* fix-yaml-lint-v2.py main(), lines 181-184, for one file
ChainLintV2 ==
    /\ passes < MaxPasses
    /\ \E r \in {fix_yaml_content(content)} :
          /\ content' = r.content
          /\ fixes' = r.fixes
          /\ trace' = r.trace
          /\ markers' = markers + MarkersAdded(r.trace)
    /\ script' = "lint_v2"
    /\ prev' = content
    /\ passes' = passes + 1
    /\ UNCHANGED <<filename, batchvars>>

NextChain ==
    \/ ChainLint
    \/ ChainComprehensive
    \/ ChainLintV2

SpecChain == InitChain /\ [][NextChain]_vars

-----------------------------------------------------------------------------
(* The batch runners: main() of each script, over the workflow files of
   .github/workflows.  A file's fault is what the file system refuses for it. *)

Faults == {"none", "read", "write"}

BatchContents == {"---\nname: build\n", "---\n" \o L_run \o "\n"}

\* the workflow directories a run may find: every list of at most MaxFiles files
Workflows ==
    UNION {[1..n -> [content : BatchContents, fault : Faults]] : n \in 0..MaxFiles}

\* sorted(yaml_files); fix-yaml-targeted.py takes the files in the order of
\* problem_files (lines 127-139), and only those that exist
FileOrder(s) ==
    IF s = "targeted"
    THEN <<"scan-to-securityhub.yml", "sbom-sca.yml", "ci-build-deploy.yml", "dast-zap.yml">>
    ELSE <<"ci-build-deploy.yml", "dast-zap.yml", "sbom-sca.yml", "scan-to-securityhub.yml">>

\* `if not workflows_dir.exists()`: every main() but that of fix-yaml-final.py
ChecksDirectory(s) == s # "final"

\* what the process exits with when the directory is missing: `return 1` under
\* exit(main()); fix-yaml-comprehensive.py returns None from a bare main()
MissingDirCode(s) == IF s = "comprehensive" THEN 0 ELSE 1

\* `if not yaml_files: ... return 1`
NeedsFiles(s) == s \in {"lint_v2", "lint"}

\* the loop body is inside try/except Exception
Catches(s) == s \in {"aggressive", "lint_v2", "targeted", "comprehensive"}

\* the rewrite a main() applies to a file's content
BatchRewrite(s, text, name) ==
    CASE s = "aggressive" -> aggressively_fix_line_lengths(text)
      [] s = "lint_v2" -> fix_yaml_content(text)
      [] s = "targeted" -> fix_specific_issues(text, name)
      [] s = "final" -> final_line_fixes(text, name)
      [] s = "comprehensive" -> fix_yaml_file(text)
      [] s = "lint" -> lint_fix_yaml_file(text)

\* Writes without the test `if fixes > 0`
Writes_Always(s, r) == TRUE

\* whether the file is opened for writing: the fix_yaml_file functions always
\* write; the other main()s write `if fixes > 0`
Writes(s, r) == s \in {"comprehensive", "lint"} \/ r.fixes > 0

\* an entry of io: who opened or rewrote which file; n is the fix count of a rewrite
Event(who, op, file, n) == [who |-> who, op |-> op, file |-> file, n |-> n]

InitBatch ==
    /\ script \in Scripts
    /\ dir \in BOOLEAN
    /\ files \in (IF dir THEN Workflows ELSE {<<>>})
    /\ pc = "start"
    /\ cursor = 0
    /\ log = <<>>
    /\ summary = FALSE
    /\ exitcode = -1
    /\ io = <<>>
    /\ procs = <<>>
    /\ filename = "ci-build-deploy.yml"
    /\ content = ""
    /\ prev = ""
    /\ fixes = 0
    /\ passes = 0
    /\ trace = <<>>
    /\ markers = 0

\* main() up to its loop: the directory check and the list of files
BatchStart ==
    /\ pc = "start"
    /\ IF (ChecksDirectory(script) /\ ~dir) \/ (NeedsFiles(script) /\ files = <<>>)
       THEN /\ pc' = "exited"
            /\ exitcode' = IF ~dir THEN MissingDirCode(script) ELSE 1
       ELSE /\ pc' = "files"
            /\ UNCHANGED exitcode
    /\ UNCHANGED <<script, filename, content, prev, fixes, passes, trace, markers,
                   dir, files, cursor, log, summary, io, procs>>

\* one iteration of the loop of main(): read, rewrite, write; an exception is
\* printed and the loop goes on where the body is inside try/except, and ends the
\* process with a traceback (exit code 1) where it is not
BatchFile ==
    /\ pc = "files"
    /\ cursor < Len(files)
    /\ \E f \in {files[cursor + 1]}, name \in {FileOrder(script)[cursor + 1]} :
          IF f.fault = "read"
          THEN /\ log' = Append(log, IF Catches(script) THEN "error" ELSE "crash")
               /\ io' = Append(io, Event("main", "read", name, 0))
               /\ UNCHANGED files
          ELSE \E r \in {BatchRewrite(script, f.content, name)} :
                  /\ io' = io \o <<Event("main", "read", name, 0),
                                   Event("main", "rewrite", name,
                                         IF "fixes" \in DOMAIN r THEN r.fixes
                                         ELSE 0)>>
                              \o (IF Writes(script, r)
                                  THEN <<Event("main", "write", name, 0)>> ELSE <<>>)
                  /\ IF ~Writes(script, r)
                     THEN /\ log' = Append(log, "clean")
                          /\ UNCHANGED files
                     ELSE IF f.fault = "write"
                     THEN /\ log' = Append(log, IF Catches(script) THEN "error"
                                                   ELSE "crash")
                          /\ UNCHANGED files
                     ELSE /\ log' = Append(log, "fixed")
                          /\ files' = [files EXCEPT ![cursor + 1].content = r.content]
    /\ cursor' = cursor + 1
    /\ pc' = IF log'[cursor + 1] = "crash" THEN "exited" ELSE "files"
    /\ exitcode' = IF log'[cursor + 1] = "crash" THEN 1 ELSE exitcode
    /\ UNCHANGED <<script, filename, content, prev, fixes, passes, trace, markers,
                   dir, summary, procs>>

\* main() after its loop: the summary, and `return 0` or the end of a bare main()
BatchSummary ==
    /\ pc = "files"
    /\ cursor = Len(files)
    /\ summary' = TRUE
    /\ pc' = "exited"
    /\ exitcode' = 0
    /\ UNCHANGED <<script, filename, content, prev, fixes, passes, trace, markers,
                   dir, files, cursor, log, io, procs>>

NextBatch ==
    \/ BatchStart
    \/ BatchFile
    \/ BatchSummary

SpecBatch == InitBatch /\ [][NextBatch]_vars

-----------------------------------------------------------------------------
(* Two runs of one main() at once over the same .github/workflows.  Each run is
   a process of its own; nothing in main() locks a file, so the file system
   interleaves the runs' opens, reads and writes in any order. *)

Instances == {"first", "second"}

\* the batch runners whose loop is read, rewrite, `if fixes > 0:` write
RaceScripts == {"aggressive", "final"}

\* the directories the two runs share: readable, writable workflow files
RaceWorkflows ==
    UNION {[1..n -> [content : BatchContents, fault : {"none"}]] : n \in 1..MaxFiles}

InitRace ==
    /\ script \in RaceScripts
    /\ dir = TRUE
    /\ files \in RaceWorkflows
    /\ procs = [p \in Instances |-> [pc |-> "read", cursor |-> 0, fixed_content |-> ""]]
    /\ io = <<>>
    /\ pc = "race"
    /\ cursor = 0
    /\ log = <<>>
    /\ summary = FALSE
    /\ exitcode = -1
    /\ filename = "ci-build-deploy.yml"
    /\ content = ""
    /\ prev = ""
    /\ fixes = 0
    /\ passes = 0
    /\ trace = <<>>
    /\ markers = 0

\* `with open(yaml_file, 'r') as f: content = f.read()` and the rewrite of what
\* was read: the run goes on to open the file for writing when fixes > 0, and to
\* the next file otherwise
RaceRead(p) ==
    /\ procs[p].pc = "read"
    /\ procs[p].cursor < Len(files)
    /\ \E k \in {procs[p].cursor + 1} :
          \E r \in {BatchRewrite(script, files[k].content, FileOrder(script)[k])} :
             /\ io' = io \o <<Event(p, "read", FileOrder(script)[k], 0),
                              Event(p, "rewrite", FileOrder(script)[k], r.fixes)>>
             /\ procs' = [procs EXCEPT ![p] =
                             IF r.fixes > 0
                             THEN [pc |-> "open", cursor |-> k - 1,
                                   fixed_content |-> r.content]
                             ELSE [pc |-> "read", cursor |-> k, fixed_content |-> ""]]
    /\ UNCHANGED <<script, filename, content, prev, fixes, passes, trace, markers,
                   dir, files, pc, cursor, log, summary, exitcode>>

\* `open(yaml_file, 'w')`: the file is truncated
RaceOpen(p) ==
    /\ procs[p].pc = "open"
    /\ \E k \in {procs[p].cursor + 1} :
          /\ files' = [files EXCEPT ![k].content = ""]
          /\ io' = Append(io, Event(p, "truncate", FileOrder(script)[k], 0))
    /\ procs' = [procs EXCEPT ![p].pc = "write"]
    /\ UNCHANGED <<script, filename, content, prev, fixes, passes, trace, markers,
                   dir, pc, cursor, log, summary, exitcode>>

\* `f.write(fixed_content)` and the end of the with block
RaceWrite(p) ==
    /\ procs[p].pc = "write"
    /\ \E k \in {procs[p].cursor + 1} :
          /\ files' = [files EXCEPT ![k].content = procs[p].fixed_content]
          /\ io' = Append(io, Event(p, "write", FileOrder(script)[k], 0))
          /\ procs' = [procs EXCEPT ![p] =
                          [pc |-> "read", cursor |-> k, fixed_content |-> ""]]
    /\ UNCHANGED <<script, filename, content, prev, fixes, passes, trace, markers,
                   dir, pc, cursor, log, summary, exitcode>>

\* the end of the loop: the summary and the end of the process
RaceExit(p) ==
    /\ procs[p].pc = "read"
    /\ procs[p].cursor = Len(files)
    /\ procs' = [procs EXCEPT ![p].pc = "exited"]
    /\ UNCHANGED <<script, filename, content, prev, fixes, passes, trace, markers,
                   dir, files, pc, cursor, log, summary, exitcode, io>>

NextRace ==
    \/ \E p \in Instances : RaceRead(p)
    \/ \E p \in Instances : RaceOpen(p)
    \/ \E p \in Instances : RaceWrite(p)
    \/ \E p \in Instances : RaceExit(p)

SpecRace == InitRace /\ [][NextRace]_vars

-----------------------------------------------------------------------------
(* Claims *)

\* the results of the last application for the input lines it replaced by several
Splits == {i \in DOMAIN trace : Len(trace[i].out) > 1}

\* C1 -- Idempotence: applying aggressively_fix_line_lengths to the content a first
\* application returned reports issues_fixed = 0.
C1_Idempotent == (script = "aggressive" /\ passes = 2) => fixes = 0

\* C2 -- Convergence: re-applying aggressively_fix_line_lengths to its own output
\* reaches a pass that reports 0 fixes and returns its input unchanged; stated for
\* the passes of a run: the last pass a run may take is such a pass.
C2_Converges ==
    (script = "aggressive" /\ passes = MaxPasses) => (fixes = 0 /\ content = prev)

\* C3 -- Budget non-regression: when aggressively_fix_line_lengths replaces one
\* input line by several, each of them is at most 80 characters long or its trimmed
\* text contains no space.
C3_SplitWithinBudget ==
    script = "aggressive" =>
        \A i \in Splits : \A j \in DOMAIN trace[i].out :
            \/ Len(trace[i].out[j]) <= 80
            \/ ~Contains(Strip(trace[i].out[j]), " ")

\* the input text up to and including its first colon, then ' >'
FoldHeader(line) == Slice(line, 0, Find(line, ":") + 1) \o " >"

\* C4 -- Key preservation on fold: the header emitted when fix_yaml_content
\* (lint-v2), the generic branch of fix_specific_issues or the URL/ARN branch of
\* final_line_fixes folds `key: value` is the input text up to and including its
\* first colon, then ' >'.
C4_FoldKeepsKey ==
    \A i \in DOMAIN trace :
        (\/ script = "lint_v2" /\ trace[i].how = "fold"
         \/ script = "targeted" /\ trace[i].how = "generic"
         \/ script = "final" /\ trace[i].how = "url")
        => trace[i].out[1] = FoldHeader(trace[i].in)

\* the value that followed the first ': ' of a line
ValueOf(line) == From(line, Find(line, ": ") + 2)

\* C5 -- Fold reversibility: for a mapping entry aggressively_fix_line_lengths
\* folds into `key: >` and continuation lines, the continuation lines joined with
\* single spaces and trimmed are the trimmed value that followed the first ': ' of
\* the input line, when that value holds no run of two or more spaces.
C5_FoldReversible ==
    script = "aggressive" =>
        \A i \in DOMAIN trace :
            (trace[i].how = "keyvalue" /\ ~Contains(ValueOf(trace[i].in), "  "))
            => /\ EndsWith(trace[i].out[1], ": >")
               /\ Strip(Join(Tail(trace[i].out), " ")) = Strip(ValueOf(trace[i].in))

C5_Witness ==
    /\ script = "aggressive"
    /\ \E i \in DOMAIN trace :
          /\ trace[i].how = "keyvalue"
          /\ ~Contains(ValueOf(trace[i].in), "  ")
          /\ Len(trace[i].out) = 2
          /\ Len(Strip(ValueOf(trace[i].in))) > 30

\* C6 -- Protection soundness: in aggressively_fix_line_lengths and fix_yaml_content
\* (lint-v2) an input line longer than 80 characters that contains '${{' and '}}'
\* and has no trailing whitespace yields exactly one output line, equal to it.
C6_ExpressionLineKept ==
    script \in {"aggressive", "lint_v2"} =>
        \A i \in DOMAIN trace :
            (/\ Len(trace[i].in) > 80
             /\ HasExpression(trace[i].in)
             /\ RStrip(trace[i].in) = trace[i].in)
            => trace[i].out = <<trace[i].in>>

\* C7 -- fix_specific_issues leaves every over-budget line that contains a
\* `${{ ... }}` expression untouched: it is emitted once, neither split nor folded.
C7_TargetedKeepsExpression ==
    script = "targeted" =>
        \A i \in DOMAIN trace :
            (Len(trace[i].in) > 80 /\ HasExpression(trace[i].in))
            => trace[i].out = <<RStrip(trace[i].in)>>

\* C8 -- Comment immutability: in aggressively_fix_line_lengths, fix_specific_issues
\* and final_line_fixes a line whose trimmed text starts with '#' yields exactly one
\* output line, equal to it up to removed trailing whitespace.
C8_CommentKept ==
    script \in {"aggressive", "targeted", "final"} =>
        \A i \in DOMAIN trace :
            IsComment(trace[i].in)
            => (Len(trace[i].out) = 1 /\ RStrip(trace[i].out[1]) = RStrip(trace[i].in))

\* exactly one terminating newline, no blank line before the end
OneTerminator(text) == EndsWith(text, NL) /\ ~EndsWith(text, NL \o NL)

\* C9 -- Terminator invariant (lint-v2): the content fix_yaml_content returns ends
\* with '\n' and never with '\n\n', also when it is applied to its own output.
C9_V2OneTerminator == (script = "lint_v2" /\ passes >= 1) => OneTerminator(content)

C9_Witness ==
    /\ script = "lint_v2"
    /\ passes = 1
    /\ EndsWith(prev, NL \o NL)
    /\ OneTerminator(content)

\* C10 -- Terminator invariant (other rewriters): the content produced by
\* aggressively_fix_line_lengths, fix_specific_issues and fix_yaml_file
\* (comprehensive) ends with exactly one newline, with no blank line before it.
C10_OthersOneTerminator ==
    (script \in {"aggressive", "targeted", "comprehensive"} /\ passes >= 1)
    => OneTerminator(content)

\* the number of lines of a text that are a document-start marker
MarkerLines(text) ==
    Cardinality({i \in DOMAIN SplitOn(text, NL) : RStrip(SplitOn(text, NL)[i]) = "---"})

\* the first line of a text is non-blank and does not start with '---'
WantsMarker(text) ==
    LET first == Head(SplitOn(text, NL))
    IN  Strip(first) # "" /\ ~StartsWith(Strip(first), "---")

\* C11 -- Document-start marker (lint-v2): fix_yaml_content prepends the line '---'
\* exactly when the first input line is non-blank and does not already start with
\* '---', and never otherwise; applied to its own output it adds no second marker.
C11_V2MarkerOnce ==
    (script = "lint_v2" /\ passes >= 1) =>
        /\ WantsMarker(prev) =>
              /\ StartsWith(content, "---" \o NL)
              /\ MarkerLines(content) = MarkerLines(prev) + 1
        /\ ~WantsMarker(prev) => MarkerLines(content) = MarkerLines(prev)
        /\ passes >= 2 => MarkerLines(content) = MarkerLines(prev)

C11_Witness ==
    /\ script = "lint_v2"
    /\ passes = 1
    /\ WantsMarker(prev)
    /\ MarkerLines(prev) = 0
    /\ MarkerLines(content) = 1

\* the first non-blank line of a text is '---'
StartsMarked(text) ==
    \E i \in DOMAIN SplitOn(text, NL) :
        /\ Strip(SplitOn(text, NL)[i]) = "---"
        /\ \A j \in 1..(i - 1) : Strip(SplitOn(text, NL)[j]) = ""

\* C12 -- No duplicate marker across rewriters: no application of fix_yaml_file
\* (fix-yaml-lint.py), fix_yaml_file (fix-yaml-comprehensive.py) or fix_yaml_content
\* (lint-v2) adds a '---' line to a document whose first non-blank line is already
\* '---'; hence along any sequence of their applications a marker is added at most
\* once.
C12_NoSecondMarker ==
    /\ (passes >= 1 /\ StartsMarked(prev)) =>
          (MarkersAdded(trace) = 0 /\ MarkerLines(content) = MarkerLines(prev))
    /\ markers <= 1

\* C13 -- Trailing whitespace: no line of the content returned by
\* aggressively_fix_line_lengths, fix_specific_issues or fix_yaml_content (lint-v2)
\* ends with a space or tab.
C13_NoTrailingWhitespace ==
    (script \in {"aggressive", "targeted", "lint_v2"} /\ passes >= 1) =>
        \A i \in DOMAIN SplitOn(content, NL) :
            RStrip(SplitOn(content, NL)[i]) = SplitOn(content, NL)[i]

\* C14 -- Fix counter: the issues_fixed value aggressively_fix_line_lengths returns
\* is the number of input lines that were replaced by more than one output line.
C14_FixesCountSplitLines ==
    (script = "aggressive" /\ passes >= 1) => fixes = Cardinality(Splits)

\* the files whose reading or writing raised an exception
Failed == {i \in DOMAIN log : log[i] \in {"error", "crash"}}

\* C15 -- Exit code: main() of fix-yaml-aggressive.py, fix-yaml-comprehensive.py and
\* fix-yaml-final.py ends the process with a non-zero exit code, and takes no file,
\* when .github/workflows does not exist, and with exit code 0 when the directory
\* exists and every file is processed without error.
C15_ExitCode ==
    (script \in {"aggressive", "comprehensive", "final"} /\ pc = "exited") =>
        /\ ~dir => (exitcode # 0 /\ log = <<>>)
        /\ (dir /\ cursor = Len(files) /\ Failed = {}) => exitcode = 0

\* C16 -- Failure isolation: in main() of fix-yaml-aggressive.py, fix-yaml-final.py
\* and fix-yaml-lint.py an exception raised for one file does not end the run:
\* every remaining file is still processed and the run reaches its summary.
C16_FailureIsolated ==
    (script \in {"aggressive", "final", "lint"} /\ pc = "exited" /\ Failed # {}) =>
        (cursor = Len(files) /\ summary)

\* C17 -- Partial failure is reflected in the exit code: when a file fails to be
\* read or written during main() of fix-yaml-aggressive.py or fix-yaml-lint-v2.py,
\* the failure is reported for that file, the remaining files are processed, and the
\* exit code is non-zero.
C17_PartialFailureExitCode ==
    (script \in {"aggressive", "lint_v2"} /\ pc = "exited" /\ Failed # {}) =>
        /\ \A i \in Failed : log[i] = "error"
        /\ cursor = Len(files)
        /\ exitcode # 0

\* the whitespace-separated words of a list of lines, in reading order
WordsOf(lines) == Flatten([j \in 1..Len(lines) |-> SplitWords(lines[j])])

\* C18 -- Word preservation: when fix_yaml_content (lint-v2) word-breaks a mapping
\* entry (Strategy 2), the words of the emitted lines, read in order, are exactly the
\* words of the input line, each occurrence once.
C18_WordsPreserved ==
    script = "lint_v2" =>
        \A i \in DOMAIN trace :
            trace[i].how = "wordbreak" => WordsOf(trace[i].out) = SplitWords(trace[i].in)

\* the non-whitespace text of a line, in order
Squeeze(line) == Join(SplitWords(line), "")

\* the non-whitespace text of the lines a rewrite emitted, less the fold indicator
\* or continuation backslash that ends the first of them
KeptText(out) ==
    Squeeze(Slice(out[1], 0, Len(out[1]) - 1)) \o Squeeze(Join(Tail(out), " "))

\* C19 -- Content preservation: every rewrite of an over-long line by fix_yaml_file
\* of fix-yaml-lint.py (role-to-assume fold, curl split, run fold) keeps all
\* non-whitespace text of the input line in its order, adding only a fold indicator
\* '>' or a line-continuation backslash.
C19_LintKeepsText ==
    script = "lint" =>
        \A i \in DOMAIN trace :
            trace[i].how \in {"role", "curl", "run"} =>
                /\ At(trace[i].out[1], Len(trace[i].out[1]) - 1) \in {">", "\\"}
                /\ KeptText(trace[i].out) = Squeeze(trace[i].in)

\* the leading whitespace of a line
Indentation(line) == Slice(line, 0, LeadingWs(line))

\* C20 -- Indentation: for every line that final_line_fixes splits (shell, echo,
\* URL/ARN, run and env branches) the first replacement line starts with the
\* leading whitespace of the input line, and every continuation line is indented
\* by the input indent plus two.
C20_FinalKeepsIndent ==
    script = "final" =>
        \A i \in DOMAIN trace :
            trace[i].how \in {"shell", "echo", "url", "run", "env"} =>
                /\ Indentation(trace[i].out[1]) = Indentation(trace[i].in)
                /\ \A k \in 2..Len(trace[i].out) :
                       LeadingWs(trace[i].out[k]) = LeadingWs(trace[i].in) + 2

\* C21 -- Zero count means no change: whenever fix_yaml_content of
\* fix-yaml-lint-v2.py, aggressively_fix_line_lengths or fix_specific_issues
\* returns a fix count of 0, the content it returns is identical to its input, so
\* a file main() does not write back has no pending change.
C21_ZeroCountNoChange ==
    (script \in {"lint_v2", "aggressive", "targeted"} /\ passes >= 1 /\ fixes = 0)
        => content = prev

\* a line longer than the budget once its trailing whitespace is removed
OverBudget(line) == Len(RStrip(line)) > 80

\* the iteration emitted its input line as one line, untouched but for trailing
\* whitespace, and counted nothing
KeptWhole(r) == r.out = <<RStrip(r.in)>> /\ r.n = 0

\* C22 -- Unterminated template fails safe: in aggressively_fix_line_lengths and
\* in fix_yaml_content of fix-yaml-lint-v2.py an over-budget line that contains an
\* opening '${{' with no closing '}}' is emitted as a single unchanged line and is
\* not counted as fixed.
C22_UnterminatedKept ==
    script \in {"aggressive", "lint_v2"} =>
        \A i \in DOMAIN trace :
            (/\ OverBudget(trace[i].in)
             /\ Contains(trace[i].in, "${{") /\ ~Contains(trace[i].in, "}}"))
                => KeptWhole(trace[i])

\* a mapping entry: `key: value`, the key not under a list marker
IsMappingEntry(line) == Contains(line, ": ") /\ ~IsListItem(line) /\ ~IsComment(line)

\* the value of a mapping entry, as written
EntryValue(line) == From(RStrip(line), Find(line, ": ") + 2)

\* a quoted string literal: opens with ' or " and closes with the same quote
IsQuoted(value) ==
    /\ Len(value) >= 2
    /\ At(value, 0) \in {"'", "\""}
    /\ At(value, Len(value) - 1) = At(value, 0)

\* C23 -- Quoted literals are atomic: an over-budget mapping entry whose value is
\* a quoted string literal is never folded or word-broken by
\* aggressively_fix_line_lengths or by fix_yaml_content of fix-yaml-lint-v2.py;
\* the line is emitted unchanged as a single line.
C23_QuotedKept ==
    script \in {"aggressive", "lint_v2"} =>
        \A i \in DOMAIN trace :
            (/\ OverBudget(trace[i].in) /\ IsMappingEntry(trace[i].in)
             /\ IsQuoted(EntryValue(trace[i].in)))
                => KeptWhole(trace[i])

\* C24 -- Folding is refused on multi-space values: aggressively_fix_line_lengths
\* does not fold an over-budget mapping entry whose value contains a run of two or
\* more consecutive spaces; the line is emitted unchanged and is not counted.
C24_MultiSpaceKept ==
    script = "aggressive" =>
        \A i \in DOMAIN trace :
            (/\ OverBudget(trace[i].in) /\ IsMappingEntry(trace[i].in)
             /\ Contains(EntryValue(trace[i].in), "  "))
                => KeptWhole(trace[i])

\* C25 -- Shell sequences are atomic: in aggressively_fix_line_lengths and in
\* fix_yaml_content of fix-yaml-lint-v2.py an over-budget non-comment line whose
\* value contains a pipe '|' or a logical operator '&&' or '||' produces exactly
\* one output line.
C25_ShellSequenceKept ==
    script \in {"aggressive", "lint_v2"} =>
        \A i \in DOMAIN trace :
            (/\ OverBudget(trace[i].in) /\ ~IsComment(trace[i].in)
             /\ ContainsAny(trace[i].in, {"|", "&&", "||"}))
                => Len(trace[i].out) = 1

\* the 0-based indexes 70..80 of a line that hold a space
BreakWindow(line) == {i \in 70..80 : i < Len(line) /\ At(line, i) = " "}

\* C26 -- Fallback break: when the fallback of aggressively_fix_line_lengths
\* applies to an over-budget line L that no earlier pattern split, and L has a
\* space at an index i with 70 <= i <= 80, L is split at the largest such i into
\* L[:i], of at most 80 characters, and one continuation line made of the input
\* indent plus 2 spaces followed by L[i+1:]; with no space in that window L is
\* emitted unchanged and issues_fixed is not incremented.
C26_FallbackBreak ==
    script = "aggressive" =>
        \A k \in DOMAIN trace :
            trace[k].how \in {"fallback", "as_is"} =>
                LET L == RStrip(trace[k].in)
                    W == BreakWindow(L)
                IN  IF W # {}
                    THEN /\ trace[k].out =
                               <<Slice(L, 0, SetMax(W)),
                                 Spaces(IndentOf(L) + 2) \o From(L, SetMax(W) + 1)>>
                         /\ Len(trace[k].out[1]) <= 80
                         /\ trace[k].n = 1
                    ELSE KeptWhole(trace[k])

\* C27 -- Within-budget pass-through: fix_specific_issues emits every input line
\* of at most 80 characters as exactly one output line equal to the input line
\* with trailing whitespace removed, whatever file name is passed to it.
C27_WithinBudgetKept ==
    script = "targeted" =>
        \A i \in DOMAIN trace :
            Len(trace[i].in) <= 80 => trace[i].out = <<RStrip(trace[i].in)>>

\* a sequence item with an embedded key-value: `<indent>- key: value`
IsItemKeyValue(line) == IsListItem(line) /\ Contains(ListContent(line), ": ")

\* C28 -- Sequence item with embedded key-value: when
\* aggressively_fix_line_lengths or fix_yaml_content of fix-yaml-lint-v2.py
\* splits an over-budget line `<indent>- key: value` it emits exactly two lines:
\* the list marker prefix with the key up to and including the colon, then the
\* value indented by the width of the list marker prefix plus 2 spaces.
C28_ItemKeyValueSplit ==
    script \in {"aggressive", "lint_v2"} =>
        \A i \in DOMAIN trace :
            (/\ OverBudget(trace[i].in) /\ IsItemKeyValue(trace[i].in)
             /\ Len(trace[i].out) > 1)
                => LET L == RStrip(trace[i].in)
                       c == ListContent(L)
                       p == Find(c, ": ")
                   IN  trace[i].out =
                           <<ListMarker(L) \o Slice(c, 0, p + 1),
                             Spaces(Len(ListMarker(L)) + 2) \o From(c, p + 2)>>

\* the entries of io for one kind of operation
Ops(op) == {i \in DOMAIN io : io[i].op = op}

\* where a file name stands in sorted(yaml_files)
Rank(name) == The({k \in DOMAIN FileOrder("aggressive") : FileOrder("aggressive")[k] = name})

\* C29 -- Serial processing order: main() of fix-yaml-aggressive.py takes the
\* files one at a time in sorted name order; a file's read, its rewrite and its
\* write-back (made only after the rewrite reported at least one fix) are all
\* done before the next file is opened, and no file is opened twice for reading
\* or twice for writing in a run.
C29_SerialOrder ==
    script = "aggressive" =>
        /\ \A i, j \in Ops("read") : i < j => Rank(io[i].file) < Rank(io[j].file)
        /\ \A i, j \in Ops("write") : i < j => Rank(io[i].file) < Rank(io[j].file)
        /\ \A i \in Ops("rewrite") :
              i > 1 /\ io[i - 1].op = "read" /\ io[i - 1].file = io[i].file
        /\ \A i \in Ops("write") :
              /\ i > 2
              /\ io[i - 1].op = "rewrite" /\ io[i - 1].file = io[i].file
              /\ io[i - 1].n > 0
        /\ \A i \in Ops("read") :
              \A j \in DOMAIN io : j > i + 2 => io[j].file # io[i].file

\* a run that wrote its first file back, then read its second and left it alone
C29_Witness ==
    /\ script = "aggressive"
    /\ pc = "exited" /\ summary
    /\ log = <<"fixed", "clean">>
    /\ Len(io) = 5
    /\ io[3].op = "write" /\ io[4].op = "read"

\* C30 -- Concurrent instances: when two invocations of main() of
\* fix-yaml-aggressive.py or fix-yaml-final.py run at once over the same
\* directory, no invocation reads a file between another invocation's
\* open-for-write, which truncates the file, and the completion of that write.
C30_NoTornRead ==
    \A i \in Ops("read") :
        \A j \in Ops("truncate") :
            (j < i /\ io[j].file = io[i].file /\ io[j].who # io[i].who)
                => \E k \in Ops("write") :
                      j < k /\ k < i /\ io[k].file = io[j].file /\ io[k].who = io[j].who

====
